---- MODULE Spec2Model ----
(***************************************************************************)
(* Trinity's tool registry (src/src/Tools.ts, the flag-gated class):       *)
(* toolCache, toolPathMap and cacheValid, the asynchronous loadTools() and *)
(* loadTool(name) calls cut at their awaits, the fs.watch callback and the *)
(* target folder they read; and, each studied alone, the module loader,    *)
(* loadToolFromFile, Server.handleCallTool and Config.parse.               *)
(***************************************************************************)
EXTENDS Naturals, Integers, Sequences, FiniteSets, TLC

\* ---------------------------------------------------------------- bounds
MaxCalls == 2       \* load calls that may be in flight at the same time
MaxChanges == 1     \* filesystem changes in one run
MaxWatchers == 1    \* fs.watch handles open at the same time

\* ------------------------------------------------------------ the folder
\* A path under config.targetFolder: directory, base name, extension.
MkPath(d, b, e) == [dir |-> d, base |-> b, ext |-> e]

\* The glob-matching paths of the model; two of them share a base name.
Paths == {MkPath("", "x", ".ts"), MkPath("sub", "x", ".ts"), MkPath("", "y", ".ts")}

\* A file under the folder that the pattern does not match.
OtherPath == MkPath("", "notes", ".md")

\* A pattern that matches every file.
GlobMatchMut(p) == TRUE

\* config.glob, "**/*.ts": any depth, extension .ts.
GlobMatch(p) == p.ext = ".ts"

\* path.basename(f, path.extname(f))
Basename(p) == p.base

Names == {Basename(p) : p \in Paths}

Absent == "absent"

\* What a file may contain: a valid unit (two versions of its executor) or
\* a unit without a description export.
Contents == {"v1", "v2", "nodesc"}

\* The exports of a module, each a JS value [t |-> typeof, v |-> payload].
Undefined == [t |-> "undefined", v |-> ""]

ModuleOf(c) ==
  [description |-> IF c = "nodesc" THEN Undefined ELSE [t |-> "string", v |-> "Says hello"],
   inputSchema |-> [t |-> "object", v |-> "zod"],
   default     |-> [t |-> "function", v |-> c]]

\* JS truthiness of the values the model uses (null is [t |-> "object", v |-> "null"]).
Truthy(val) ==
  ~ \/ val.t = "undefined"
    \/ val.t = "string" /\ val.v = ""
    \/ val.t = "object" /\ val.v = "null"
    \/ val.t = "number" /\ val.v = "0"
    \/ val.t = "boolean" /\ val.v = "false"

\* A buildDescription that puts the separator before the blank line.
BuildDescriptionMut(description, filePath) ==
  <<description, "---", "", <<"Source: ", filePath>>,
    "Note: This tool is dynamically loaded. Changes to this file will immediately affect this tool's behavior. You can read and modify this file to change the tool.">>

\* buildDescription(description, filePath): the lines that join("\n") joins.
BuildDescription(description, filePath) ==
  <<description, "", "---", <<"Source: ", filePath>>,
    "Note: This tool is dynamically loaded. Changes to this file will immediately affect this tool's behavior. You can read and modify this file to change the tool.">>

\* The checks of loadToolFromFile on the imported module, and its result.
ToolFromModule(filePath, mod) ==
  IF ~Truthy(mod.description) \/ mod.description.t # "string"
    THEN [ok |-> FALSE, err |-> "description"]
  ELSE IF ~Truthy(mod.inputSchema) \/ mod.inputSchema.t # "object"
    THEN [ok |-> FALSE, err |-> "inputSchema"]
  ELSE IF ~Truthy(mod.default) \/ mod.default.t # "function"
    THEN [ok |-> FALSE, err |-> "default"]
  ELSE [ok |-> TRUE,
        tool |-> [name |-> Basename(filePath),
                  description |-> BuildDescription(mod.description.v, filePath),
                  inputSchema |-> mod.inputSchema.v,
                  execute |-> mod.default.v]]

\* loadToolFromFile after the import has settled: `content` is what the
\* import read (Absent: the import rejected).
LoadToolFromFile(filePath, content) ==
  IF content = Absent
    THEN [ok |-> FALSE, err |-> "import"]
    ELSE ToolFromModule(filePath, ModuleOf(content))

\* The file a definition was loaded from, as its description records it.
SourceOf(tool) == tool.description[4][2]

\* ------------------------------------------------------------ Map helpers
EmptyMap == <<>>

MapSet(m, k, val) == [x \in (DOMAIN m) \cup {k} |-> IF x = k THEN val ELSE m[x]]

MapValues(m) == {m[k] : k \in DOMAIN m}

Range(s) == {s[i] : i \in DOMAIN s}

RemoveAt(s, i) == [j \in 1..(Len(s) - 1) |-> IF j < i THEN s[j] ELSE s[j + 1]]

\* The orders in which a directory scan may list the files of S. The maps are
\* keyed by base name, so only the order among files of one base name is
\* kept open; files of different base names are listed by base name.
Orders(S) ==
  {s \in [1..Cardinality(S) -> S] :
     /\ Range(s) = S
     /\ \A i, j \in DOMAIN s :
          (i < j /\ s[i].base # s[j].base) => s[i].base = "x"}

\* ------------------------------------------------------------------ state
VARIABLES
  disk,         \* the glob-matching files of the folder: path -> content or Absent
  nchanges,     \* filesystem changes so far
  watcher,      \* Tools.watcher is set
  leaked,       \* fs.watch handles that startWatching overwrote without closing
  events,       \* change notifications the runtime has not delivered yet
  cacheValid,   \* Tools.cacheValid
  toolCache,    \* Tools.toolCache: name -> ToolDefinition
  toolPathMap,  \* Tools.toolPathMap: name -> path
  calls,        \* the load calls in flight, oldest first, each suspended at an await
  aux,          \* history, per call in flight: what held when it started
  done,         \* history: the call that completed last, with its result, until the next
                \* load step, filesystem change or watcher event
  procd,        \* history: number of the last change whose event onFileChange processed
  cacheSup,     \* history: number of the first change that outdated what toolCache was
                \* filled from (0: none yet)
  settled,      \* history: per path "no" (unchanged so far), "pending" (changed, event not
                \* processed) or the kind of its last change once onFileChange processed it
  failed,       \* the handle in Tools.watcher has emitted 'error' and delivers nothing more
  onChangeCallback, \* Tools.onChangeCallback: "null" or the registered callback
  clock,        \* Date.now(), in milliseconds
  moduleCache,  \* the runtime's module registry: import specifier -> module
  unit,         \* the input of the operation that is studied alone: a module, a request
  limit,        \* the bounds of the run: calls in flight, filesystem changes, open handles
  readable,     \* the target folder can be enumerated
  subs,         \* history: the callbacks passed to the last two onChange calls
  logger,       \* the Logger instances: queue, timer, write in flight, and what each
                \* has been asked to log and has put out
  server        \* the Server and its process: how far start() and stop() have come

fsVars    == <<disk, nchanges>>
watchVars == <<watcher, leaked, events, failed>>
regVars   == <<cacheValid, toolCache, toolPathMap>>
histVars  == <<procd, cacheSup, settled>>
loaderVars == <<clock, moduleCache, unit>>
toolsVars == <<fsVars, watchVars, regVars, calls, aux, done, histVars, onChangeCallback,
               loaderVars, limit, readable, subs>>
vars == <<toolsVars, logger, server>>

NoResult == [st |-> "none"]
NoPath   == MkPath("", "", "")
NoDone   == [op |-> "none"]

\* A call in flight: loadTools' and loadTool's locals and the await reached.
NewCall(o, n, at) ==
  [op |-> o, name |-> n, pc |-> at, files |-> <<>>,
   results |-> [p \in Paths |-> NoResult], errors |-> [p \in Paths |-> 0],
   filePath |-> NoPath]

AuxInit ==
  [sup       |-> 0,      \* number of the first change that outdated what the call's
                         \* enumeration and imports had read (0: none yet)
   follows   |-> FALSE,  \* the call started right after a loadTools call completed
   prev      |-> {},     \* ... whose result this was
   expectIn  |-> {},     \* files added, event processed, unchanged since
   expectOut |-> {},     \* files deleted, event processed, unchanged since
   mod       |-> {},     \* files modified, event processed, this is the next loadTool
   nofile    |-> FALSE,  \* no file had the requested base name during the call
   had       |-> FALSE,  \* some file had the requested base name during the call
   known     |-> FALSE,  \* at the start no change to a file of that name awaited its event
   read      |-> Absent, \* what loadTool's import read
   wrote     |-> FALSE,  \* the call itself has changed toolCache, toolPathMap or cacheValid
   later     |-> EmptyMap, \* per base name shared by two listed files: the file whose
                           \* load finished last
   warned    |-> 0,      \* logger.warn calls made on behalf of the call
   again     |-> FALSE]  \* toolCache held a definition of the requested name at the start

IsValidUnit(c) == c \in {"v1", "v2"}

\* The folders a run may start from: two valid units of different names, or
\* a single file that lacks its description export.
Folders ==
  {[p \in Paths |-> IF p.dir = "" THEN "v1" ELSE Absent],
   [p \in Paths |-> IF p.dir = "" /\ p.base = "x" THEN "nodesc" ELSE Absent]}

Existing == {p \in Paths : disk[p] # Absent}

\* The Logger instances of the process: index.ts' "main", the Server's and the
\* Tools'. Each has its own queue, timer and isWriting flag.
Loggers == {"main", "Server", "Tools"}

\* A Logger in file mode after construction. A formatted message is
\* <<msg, k>>, the k-th message of its Logger.
NewLogger ==
  [logQueue   |-> <<>>,    \* Logger.logQueue
   flushTimer |-> FALSE,   \* Logger.flushTimer is set
   isWriting  |-> FALSE,   \* Logger.isWriting
   inflight   |-> <<>>,    \* logsToWrite of each appendFile that has not settled
   logged     |-> <<>>,    \* history: the messages passed to queueLog
   out        |-> <<>>,    \* history: the messages of the settled appendFile calls,
                           \* written to the file or printed by the fallback
   file       |-> <<>>]    \* history: the messages appended to the log file

\* The Server after construction, start() and stop() not yet called.
NewServer == [start |-> "idle", stop |-> "idle"]

\* No module is handed to loadToolFromFile on its own.
NoUnit == [path |-> NoPath]

\* The Tools instance after construction, in a folder of Folders.
Constructed ==
  /\ disk \in Folders
  /\ nchanges = 0
  /\ watcher = FALSE
  /\ leaked = 0
  /\ failed = FALSE
  /\ events = <<>>
  /\ onChangeCallback = "null"
  /\ cacheValid = FALSE
  /\ toolCache = EmptyMap
  /\ toolPathMap = EmptyMap
  /\ calls = <<>>
  /\ aux = <<>>
  /\ done = NoDone
  /\ procd = 0
  /\ cacheSup = 0
  /\ settled = [p \in Paths |-> "no"]
  /\ clock = 0
  /\ moduleCache = EmptyMap
  /\ subs = [prev |-> "null", last |-> "null"]
  /\ logger = [l \in Loggers |-> NewLogger]
  /\ server = NewServer

Init ==
  /\ Constructed
  /\ limit = [calls |-> MaxCalls, changes |-> MaxChanges, watchers |-> MaxWatchers,
              clock |-> 0]
  /\ unit = NoUnit
  /\ readable = TRUE

\* ------------------------------------------------------- the file system
\* One notification per open fs.watch handle; `off` records that the change
\* was made while Tools.watcher was null.
NewEvents(p, kind, k) ==
  [i \in 1..leaked |->
     [file |-> p, seq |-> k, kind |-> kind, w |-> "leak", off |-> ~watcher]]
    \o (IF watcher /\ ~failed
          THEN <<[file |-> p, seq |-> k, kind |-> kind, w |-> "cur", off |-> FALSE]>>
          ELSE <<>>)

\* A pending notification about p no longer describes p's last change.
Outdate(es, p) ==
  [i \in DOMAIN es |-> IF es[i].file = p THEN [es[i] EXCEPT !.kind = "old"] ELSE es[i]]

\* History of the calls in flight when path p changes (change k) and the
\* folder becomes d. The change outdates what a scan has read when the scan
\* has loaded the file that is deleted, or has listed the folder without the
\* file that is written, or has already imported it.
AuxOnChange(p, d, k) ==
  [i \in DOMAIN aux |->
     [aux[i] EXCEPT
        !.sup = IF /\ @ = 0
                   /\ calls[i].op = "loadTools" /\ calls[i].pc = "importing"
                   /\ IF d[p] = Absent THEN calls[i].results[p].st = "ok"
                                        ELSE calls[i].results[p].st # "pending"
                  THEN k ELSE @,
        !.expectIn = @ \ {p}, !.expectOut = @ \ {p}, !.mod = @ \ {p},
        !.nofile = @ /\ ~(d[p] # Absent /\ Basename(p) = calls[i].name),
        !.had = @ /\ \E q \in Paths : d[q] # Absent /\ Basename(q) = calls[i].name]]

FsChange(p, content, kind) ==
  /\ nchanges < limit.changes
  /\ disk' = [disk EXCEPT ![p] = content]
  /\ nchanges' = nchanges + 1
  /\ events' = Outdate(events, p) \o NewEvents(p, kind, nchanges + 1)
  /\ settled' = [settled EXCEPT ![p] = "pending"]
  /\ aux' = AuxOnChange(p, disk', nchanges + 1)
  /\ cacheSup' = IF cacheSup = 0 THEN nchanges + 1 ELSE cacheSup
  /\ done' = NoDone
  /\ UNCHANGED <<watcher, leaked, failed, regVars, calls, procd>>
  /\ UNCHANGED <<onChangeCallback, loaderVars, limit, readable, subs, logger, server>>

\* A matching file is created or overwritten.
FsWrite(p, content) ==
  /\ disk[p] # content
  /\ FsChange(p, content, IF disk[p] = Absent THEN "add" ELSE "modify")

\* A matching file is deleted.
FsDelete(p) ==
  /\ disk[p] # Absent
  /\ FsChange(p, Absent, "delete")

\* A file the pattern does not match changes.
FsOther ==
  /\ nchanges < limit.changes
  /\ nchanges' = nchanges + 1
  /\ events' = events \o NewEvents(OtherPath, "other", nchanges + 1)
  /\ done' = NoDone
  /\ UNCHANGED <<disk, watcher, leaked, failed, regVars, calls, aux, histVars>>
  /\ UNCHANGED <<onChangeCallback, loaderVars, limit, readable, subs, logger, server>>

\* A change in the folder that the platform reports without a file name.
FsNameless ==
  /\ nchanges < limit.changes
  /\ nchanges' = nchanges + 1
  /\ events' = events \o NewEvents(NoPath, "other", nchanges + 1)
  /\ done' = NoDone
  /\ UNCHANGED <<disk, watcher, leaked, failed, regVars, calls, aux, histVars>>
  /\ UNCHANGED <<onChangeCallback, loaderVars, limit, readable, subs, logger, server>>

\* ------------------------------------------------------------ the watcher
\* startWatching(): a new fs.watch handle replaces this.watcher; a handle
\* already there is not closed.
StartWatching ==
  /\ leaked + (IF watcher THEN 1 ELSE 0) + 1 <= limit.watchers
  /\ watcher' = TRUE
  /\ leaked' = IF watcher THEN leaked + 1 ELSE leaked
  /\ events' = [i \in DOMAIN events |-> [events[i] EXCEPT !.w = "leak"]]
  /\ failed' = FALSE
  /\ UNCHANGED <<fsVars, regVars, calls, aux, done, histVars>>
  /\ UNCHANGED <<onChangeCallback, loaderVars, limit, readable, subs>>

\* startWatching() called on its own.
startWatching == StartWatching /\ UNCHANGED <<logger, server>>

\* stopWatching(): closes this.watcher if set; a closed handle delivers nothing.
StopWatching ==
  /\ watcher
  /\ watcher' = FALSE
  /\ events' = SelectSeq(events, LAMBDA e : e.w = "leak")
  /\ failed' = FALSE
  /\ UNCHANGED <<leaked, fsVars, regVars, calls, aux, done, histVars>>
  /\ UNCHANGED <<onChangeCallback, loaderVars, limit, readable, subs>>

\* stopWatching() called on its own.
stopWatching == StopWatching /\ UNCHANGED <<logger, server>>

\* What a registered callback does when it is invoked: it returns, it throws,
\* it returns after starting asynchronous work that rejects, or it is the
\* server's onToolsChanged, whose sendToolListChanged() rejects into its
\* .catch, which calls logger.error.
Callbacks == {"ok", "throws", "rejects", "onToolsChanged"}

\* What one run of the fs.watch listener did: whether the file name matched,
\* how often the callback was invoked and the value of cacheValid it found,
\* the exception that left onFileChange, the rejection nobody handles, and
\* the logger.error calls.
Listened(e, m, n, seen, cb) ==
  [op |-> "onFileChange", file |-> e.file, off |-> e.off, matched |-> m,
   cb |-> onChangeCallback,
   notified |-> n, seen |-> seen,
   threw |-> n > 0 /\ cb = "throws", unhandled |-> n > 0 /\ cb = "rejects",
   logged |-> IF n > 0 /\ cb = "onToolsChanged" THEN 1 ELSE 0]

\* An onFileChange that invokes the callback before it invalidates the cache.
onFileChangeMut(e) ==
  IF ~GlobMatch(e.file)
    THEN /\ UNCHANGED <<regVars, procd, settled>>
         /\ done' = Listened(e, FALSE, 0, cacheValid, onChangeCallback)
    ELSE /\ cacheValid' = FALSE
         /\ UNCHANGED <<toolCache, toolPathMap>>
         /\ procd' = IF e.seq > procd THEN e.seq ELSE procd
         /\ settled' = IF e.kind = "old" THEN settled
                                         ELSE [settled EXCEPT ![e.file] = e.kind]
         /\ done' = Listened(e, TRUE, IF onChangeCallback # "null" THEN 1 ELSE 0,
                             cacheValid, onChangeCallback)

\* onFileChange(event, filename)
onFileChange(e) ==
  IF ~GlobMatch(e.file)
    THEN /\ UNCHANGED <<regVars, procd, settled>>
         /\ done' = Listened(e, FALSE, 0, cacheValid, onChangeCallback)
    ELSE /\ cacheValid' = FALSE
         /\ UNCHANGED <<toolCache, toolPathMap>>
         /\ procd' = IF e.seq > procd THEN e.seq ELSE procd
         /\ settled' = IF e.kind = "old" THEN settled
                                         ELSE [settled EXCEPT ![e.file] = e.kind]
         /\ done' = Listened(e, TRUE, IF onChangeCallback # "null" THEN 1 ELSE 0,
                             cacheValid', onChangeCallback)

\* A listener that also drops the toolCache entry of the changed file.
WatchEventMut ==
  /\ events # <<>>
  /\ events' = Tail(events)
  /\ LET e == Head(events)
     IN IF GlobMatch(e.file)
          THEN /\ cacheValid' = FALSE
               /\ toolCache' = [n \in DOMAIN toolCache \ {Basename(e.file)} |-> toolCache[n]]
               /\ UNCHANGED <<toolPathMap, procd, settled>>
               /\ done' = Listened(e, TRUE, IF onChangeCallback # "null" THEN 1 ELSE 0,
                                   FALSE, onChangeCallback)
          ELSE /\ UNCHANGED <<regVars, procd, settled>>
               /\ done' = Listened(e, FALSE, 0, cacheValid, onChangeCallback)
  /\ UNCHANGED <<watcher, leaked, failed, fsVars, calls, aux, cacheSup>>
  /\ UNCHANGED <<onChangeCallback, loaderVars, limit, readable, subs, logger, server>>

\* The fs.watch listener runs for the oldest pending notification: it calls
\* onFileChange unless the notification carries no file name.
WatchEvent ==
  /\ events # <<>>
  /\ events' = Tail(events)
  /\ IF Head(events).file = NoPath
       THEN /\ UNCHANGED <<regVars, procd, settled>>
            /\ done' = [Listened(Head(events), FALSE, 0, cacheValid, onChangeCallback)
                          EXCEPT !.op = "listener"]
       ELSE onFileChange(Head(events))
  /\ UNCHANGED <<watcher, leaked, failed, fsVars, calls, aux, cacheSup>>
  /\ UNCHANGED <<onChangeCallback, loaderVars, limit, readable, subs, logger, server>>

\* An onChange that keeps the callback registered first.
onChangeMut(cb) ==
  /\ subs.last # cb
  /\ onChangeCallback' = IF onChangeCallback = "null" THEN cb ELSE onChangeCallback
  /\ subs' = [prev |-> subs.last, last |-> cb]
  /\ done' = NoDone
  /\ UNCHANGED <<fsVars, watchVars, regVars, calls, aux, histVars, loaderVars, limit, readable, logger, server>>

\* onChange(callback)
onChange(cb) ==
  /\ subs.last # cb
  /\ onChangeCallback' = cb
  /\ subs' = [prev |-> subs.last, last |-> cb]
  /\ done' = NoDone
  /\ UNCHANGED <<fsVars, watchVars, regVars, calls, aux, histVars, loaderVars, limit, readable, logger, server>>

\* An 'error' handler that also invalidates the cache.
WatcherErrorMut(w) ==
  /\ IF w = "cur" THEN watcher /\ ~failed ELSE leaked > 0
  /\ done' = [op |-> "watcherError", w |-> w, threw |-> FALSE, logged |-> 1]
  /\ failed' = failed
  /\ cacheValid' = FALSE
  /\ UNCHANGED <<watcher, leaked, events, fsVars, toolCache, toolPathMap, calls, aux, histVars>>
  /\ UNCHANGED <<onChangeCallback, loaderVars, limit, readable, subs, logger, server>>

\* An open handle emits 'error': the handler attached by startWatching
\* reports it; the handle in Tools.watcher may stop delivering from then on.
WatcherError(w) ==
  /\ IF w = "cur" THEN watcher /\ ~failed ELSE leaked > 0
  /\ done' = [op |-> "watcherError", w |-> w, threw |-> FALSE, logged |-> 1]
  /\ \E f \in {FALSE, w = "cur"} :
       /\ failed' = f
       /\ events' = IF f THEN SelectSeq(events, LAMBDA e : e.w = "leak") ELSE events
  /\ UNCHANGED <<watcher, leaked, fsVars, regVars, calls, aux, histVars>>
  /\ UNCHANGED <<onChangeCallback, loaderVars, limit, readable, subs, logger, server>>

\* -------------------------------------------------------------- the calls
\* The call that completes: its locals, its result, its history.
Done(call, a, r) == [op |-> call.op, call |-> call, aux |-> a, ret |-> r]

\* A new call suspends at its first await and joins the calls in flight.
Started(call, a) ==
  /\ calls' = Append(calls, call)
  /\ aux' = Append(aux, a)
  /\ done' = NoDone

\* A call completes at once, without suspending.
Immediate(call, a, r) ==
  /\ UNCHANGED <<calls, aux>>
  /\ done' = Done(call, a, r)

\* Call i completes after its last await.
Completed(i, call, a, r) ==
  /\ calls' = RemoveAt(calls, i)
  /\ aux' = RemoveAt(aux, i)
  /\ done' = Done(call, a, r)

\* Call i moves on to its next await.
Suspended(i, call, a) ==
  /\ calls' = [calls EXCEPT ![i] = call]
  /\ aux' = [aux EXCEPT ![i] = a]
  /\ done' = NoDone

\* A fast path taken only when the cache holds more than one definition.
CacheHitMut == cacheValid /\ Cardinality(DOMAIN toolCache) > 1

\* The guard of loadTools' fast path (Tools.ts line 41).
CacheHit == cacheValid /\ Cardinality(DOMAIN toolCache) > 0

\* A fast path of loadTool that ignores cacheValid.
CachedToolMut(name) == name \in DOMAIN toolCache

\* The guard of loadTool's fast path (Tools.ts line 77).
CachedTool(name) == cacheValid /\ name \in DOMAIN toolCache

\* loadTools(), up to its first await: the cached values, or the scan begins.
LoadToolsBegin ==
  /\ Len(calls) < limit.calls
  /\ LET after == done.op = "loadTools" /\ done.ret.kind = "tools"
         a == [AuxInit EXCEPT
                 !.follows = after,
                 !.prev = IF after THEN done.ret.tools ELSE {},
                 !.expectIn = {p \in Paths : settled[p] = "add" /\ IsValidUnit(disk[p])},
                 !.expectOut = {p \in Paths : settled[p] = "delete"}]
     IN IF CacheHit
          THEN Immediate(NewCall("loadTools", "", "start"),
                         [a EXCEPT !.sup = cacheSup],
                         [kind |-> "tools", tools |-> MapValues(toolCache)])
          ELSE Started(NewCall("loadTools", "", "scanning"), a)
  /\ UNCHANGED <<fsVars, watchVars, regVars, histVars>>
  /\ UNCHANGED <<onChangeCallback, loaderVars, limit, readable, subs>>

\* loadTools() called on its own, up to its first await.
LoadToolsStart == LoadToolsBegin /\ UNCHANGED <<logger, server>>

\* for (const tool of tools) this.toolCache.set(tool.name, tool), in the
\* order of `files`.
RECURSIVE CacheAll(_, _, _)
CacheAll(m, fs, res) ==
  IF fs = <<>> THEN m
  ELSE CacheAll(IF res[Head(fs)].st = "ok"
                  THEN MapSet(m, res[Head(fs)].tool.name, res[Head(fs)].tool)
                  ELSE m,
                Tail(fs), res)

\* results.filter(Boolean)
ToolsOf(fs, res) == {res[p].tool : p \in {q \in Range(fs) : res[q].st = "ok"}}

\* resolveToolFiles(): what the loop over globPattern.scan() may collect. In
\* a folder that cannot be enumerated the iterator throws, which rejects
\* resolveToolFiles (it has no catch), or ends without a file; in neither
\* case does resolveToolFiles log anything.
resolveToolFiles ==
  IF readable
    THEN {[ok |-> TRUE, files |-> fs] : fs \in Orders(Existing)}
    ELSE {[ok |-> FALSE, files |-> <<>>], [ok |-> TRUE, files |-> <<>>]}

\* The rejection of resolveToolFiles as it leaves loadTools or loadTool.
ScanError(call) == [kind |-> "error", error |-> "enumeration", name |-> call.name]

\* loadTools() after resolveToolFiles(): both maps are cleared and one
\* loadToolFromFile per file is issued; with no file, Promise.all resolves
\* at once and the call completes. A rejected enumeration rejects the call
\* before anything is cleared.
LoadToolsScan(i) ==
  /\ calls[i].pc = "scanning" /\ calls[i].op = "loadTools"
  /\ \E l \in resolveToolFiles :
       LET fs == l.files
           call == [calls[i] EXCEPT
                      !.pc = "importing", !.files = fs,
                      !.results = [p \in Paths |-> IF p \in Range(fs) THEN [st |-> "pending"]
                                                                      ELSE NoResult]]
       IN IF ~l.ok
            THEN /\ Completed(i, calls[i], aux[i], ScanError(calls[i]))
                 /\ UNCHANGED <<regVars, cacheSup>>
            ELSE /\ toolPathMap' = EmptyMap
                 /\ toolCache' = EmptyMap
                 /\ IF fs = <<>>
                      THEN /\ cacheValid' = TRUE
                           /\ cacheSup' = 0
                           /\ Completed(i, call, aux[i], [kind |-> "tools", tools |-> {}])
                      ELSE /\ Suspended(i, call, aux[i])
                           /\ UNCHANGED <<cacheValid, cacheSup>>
  /\ UNCHANGED <<fsVars, watchVars, procd, settled>>
  /\ UNCHANGED <<onChangeCallback, loaderVars, limit, readable, subs, logger, server>>

\* One loadToolFromFile of the scan settles; when it is the last one,
\* Promise.all resolves and loadTools caches the tools and returns them.
LoadToolsImport(i, p) ==
  /\ calls[i].pc = "importing" /\ calls[i].op = "loadTools"
  /\ calls[i].results[p].st = "pending"
  /\ LET r == LoadToolFromFile(p, disk[p])
         res == [calls[i].results EXCEPT ![p] = IF r.ok THEN [st |-> "ok", tool |-> r.tool]
                                                        ELSE [st |-> "failed"]]
         call == [calls[i] EXCEPT !.results = res,
                                  !.errors[p] = IF r.ok THEN @ ELSE @ + 1]
         last == \A q \in Paths : res[q].st # "pending"
         shared == \E q \in Range(calls[i].files) : q # p /\ Basename(q) = Basename(p)
         a == IF shared /\ r.ok THEN [aux[i] EXCEPT !.later = MapSet(@, Basename(p), p)] ELSE aux[i]
     IN /\ toolPathMap' = IF r.ok THEN MapSet(toolPathMap, r.tool.name, p) ELSE toolPathMap
        /\ IF last
             THEN /\ toolCache' = CacheAll(toolCache, call.files, res)
                  /\ cacheValid' = TRUE
                  /\ cacheSup' = aux[i].sup
                  /\ Completed(i, call, a,
                               [kind |-> "tools", tools |-> ToolsOf(call.files, res)])
             ELSE /\ Suspended(i, call, a)
                  /\ UNCHANGED <<toolCache, cacheValid, cacheSup>>
  /\ UNCHANGED <<fsVars, watchVars, procd, settled>>
  /\ UNCHANGED <<onChangeCallback, loaderVars, limit, readable, subs, logger, server>>

\* A lookup that compares the name with the file name, extension included.
FindMut(fs, name) ==
  LET I == {i \in DOMAIN fs : <<fs[i].base, fs[i].ext>> = <<name, "">>}
  IN IF I = {} THEN NoPath ELSE fs[CHOOSE i \in I : \A j \in I : i <= j]

\* files.find((f) => path.basename(f, path.extname(f)) === name)
Find(fs, name) ==
  LET I == {i \in DOMAIN fs : Basename(fs[i]) = name}
  IN IF I = {} THEN NoPath ELSE fs[CHOOSE i \in I : \A j \in I : i <= j]

\* loadTool(name), up to its first await: the cached definition, the import
\* of the remembered path, or the scan for the file.
LoadToolStart(name) ==
  /\ Len(calls) < limit.calls
  /\ LET next == {p \in Paths : Basename(p) = name /\ settled[p] = "modify"}
         a == [AuxInit EXCEPT
                 !.nofile = \A p \in Existing : Basename(p) # name,
                 !.had = \E p \in Existing : Basename(p) = name,
                 !.known = \A p \in Paths : Basename(p) = name => settled[p] # "pending",
                 !.again = name \in DOMAIN toolCache,
                 !.mod = next]
     IN /\ settled' = [p \in Paths |-> IF p \in next THEN "modseen" ELSE settled[p]]
        /\ IF CachedTool(name)
             THEN Immediate(NewCall("loadTool", name, "start"), a,
                            [kind |-> "tool", tool |-> toolCache[name]])
             ELSE IF name \in DOMAIN toolPathMap
               THEN Started([NewCall("loadTool", name, "loading")
                               EXCEPT !.filePath = toolPathMap[name]], a)
               ELSE Started(NewCall("loadTool", name, "scanning"), a)
  /\ UNCHANGED <<fsVars, watchVars, regVars, procd, cacheSup>>
  /\ UNCHANGED <<onChangeCallback, loaderVars, limit, readable, subs, logger, server>>

\* loadTool(name) after resolveToolFiles(): not found, or the path is
\* remembered and the import begins.
LoadToolScan(i) ==
  /\ calls[i].pc = "scanning" /\ calls[i].op = "loadTool"
  /\ \E l \in resolveToolFiles :
       LET found == Find(l.files, calls[i].name)
       IN IF ~l.ok
            THEN /\ Completed(i, calls[i], aux[i], ScanError(calls[i]))
                 /\ UNCHANGED toolPathMap
          ELSE IF found = NoPath
            THEN /\ Completed(i, calls[i], aux[i],
                              [kind |-> "error", error |-> "Tool not found",
                               name |-> calls[i].name])
                 /\ UNCHANGED toolPathMap
            ELSE /\ toolPathMap' = MapSet(toolPathMap, calls[i].name, found)
                 /\ Suspended(i, [calls[i] EXCEPT !.pc = "loading", !.filePath = found],
                              [aux[i] EXCEPT !.wrote = toolPathMap' # toolPathMap])
  /\ UNCHANGED <<fsVars, watchVars, cacheValid, toolCache, histVars>>
  /\ UNCHANGED <<onChangeCallback, loaderVars, limit, readable, subs, logger, server>>

\* loadTool(name) after loadToolFromFile(filePath): the load error, or the
\* definition is cached under the requested name and returned.
LoadToolImport(i) ==
  /\ calls[i].pc = "loading" /\ calls[i].op = "loadTool"
  /\ LET path == calls[i].filePath
         r == LoadToolFromFile(path, disk[path])
         a == [aux[i] EXCEPT !.read = disk[path]]
     IN IF r.ok
          THEN /\ toolPathMap' = MapSet(toolPathMap, r.tool.name, path)
               /\ toolCache' = MapSet(toolCache, calls[i].name, r.tool)
               /\ Completed(i, calls[i], a, [kind |-> "tool", tool |-> r.tool])
          ELSE /\ Completed(i, calls[i], a,
                            [kind |-> "error", error |-> r.err, name |-> calls[i].name])
               /\ UNCHANGED <<toolPathMap, toolCache>>
  /\ UNCHANGED <<fsVars, watchVars, cacheValid, histVars>>
  /\ UNCHANGED <<onChangeCallback, loaderVars, limit, readable, subs, logger, server>>

Next ==
  \/ \E p \in Paths, content \in Contents : FsWrite(p, content)
  \/ \E p \in Paths : FsDelete(p)
  \/ FsOther
  \/ startWatching
  \/ stopWatching
  \/ WatchEvent
  \/ LoadToolsStart
  \/ \E i \in DOMAIN calls : LoadToolsScan(i)
  \/ \E i \in DOMAIN calls, p \in Paths : LoadToolsImport(i, p)
  \/ \E name \in Names : LoadToolStart(name)
  \/ \E i \in DOMAIN calls : LoadToolScan(i)
  \/ \E i \in DOMAIN calls : LoadToolImport(i)

Spec == Init /\ [][Next]_vars

\* ------------------------------------------------- watcher and subscriber
\* The bounds of the runs that study the watcher and the change subscriber.
WatchCalls == 1      \* load calls in flight
WatchChanges == 1    \* filesystem changes
WatchWatchers == 2   \* fs.watch handles open at the same time

InitWatch ==
  /\ Constructed
  /\ limit = [calls |-> WatchCalls, changes |-> WatchChanges, watchers |-> WatchWatchers,
              clock |-> 0]
  /\ unit = NoUnit
  /\ readable = TRUE

NextWatch ==
  \/ \E p \in Paths, content \in Contents : FsWrite(p, content)
  \/ \E p \in Paths : FsDelete(p)
  \/ FsOther
  \/ FsNameless
  \/ startWatching
  \/ stopWatching
  \/ WatchEvent
  \/ \E cb \in Callbacks \cup {"null"} : onChange(cb)
  \/ \E w \in {"cur", "leak"} : WatcherError(w)
  \/ LoadToolsStart
  \/ \E i \in DOMAIN calls : LoadToolsScan(i)
  \/ \E i \in DOMAIN calls, p \in Paths : LoadToolsImport(i, p)

WatchSpec == InitWatch /\ [][NextWatch]_vars

\* ------------------------------------------------------ the module loader
\* The bounds of the runs that study dynamicImport alone.
ImportChanges == 2   \* filesystem changes
MaxClock == 1        \* milliseconds by which Date.now() advances

\* `${filePath}?t=${Date.now()}`
Specifier(filePath, now) == <<filePath, now>>

\* A millisecond passes.
Tick ==
  /\ clock < limit.clock
  /\ clock' = clock + 1
  /\ UNCHANGED <<fsVars, watchVars, regVars, calls, aux, done, histVars>>
  /\ UNCHANGED <<onChangeCallback, moduleCache, unit, limit, readable, subs, logger, server>>

\* dynamicImport(filePath), then the checks of loadToolFromFile: import() of a
\* specifier the runtime has already loaded returns that module instance, and a
\* new specifier is loaded from the file. Whether the runtime also remembers a
\* failed load is left open.
dynamicImport(filePath) ==
  /\ LET spec == Specifier(filePath, clock)
         hit == spec \in DOMAIN moduleCache
         got == IF hit THEN moduleCache[spec] ELSE disk[filePath]
     IN /\ \E keep \in {TRUE, got # Absent} :
             moduleCache' = IF hit \/ ~keep THEN moduleCache
                                            ELSE MapSet(moduleCache, spec, got)
        /\ done' = [op |-> "import", path |-> filePath, got |-> got,
                    ret |-> LoadToolFromFile(filePath, got)]
  /\ UNCHANGED <<fsVars, watchVars, regVars, calls, aux, histVars>>
  /\ UNCHANGED <<onChangeCallback, clock, unit, limit, readable, subs, logger, server>>

InitImport ==
  /\ Constructed
  /\ limit = [calls |-> 0, changes |-> ImportChanges, watchers |-> 0, clock |-> MaxClock]
  /\ unit = NoUnit
  /\ readable = TRUE

NextImport ==
  \/ \E p \in Paths, content \in Contents : FsWrite(p, content)
  \/ \E p \in Paths : FsDelete(p)
  \/ Tick
  \/ \E p \in Paths : dynamicImport(p)

ImportSpec == InitImport /\ [][NextImport]_vars

\* ------------------------------------------------- loadToolFromFile alone
\* The values an export of a module may have.
Values ==
  {Undefined,
   [t |-> "string", v |-> ""], [t |-> "string", v |-> "Says hello"],
   [t |-> "number", v |-> "0"], [t |-> "number", v |-> "7"],
   [t |-> "boolean", v |-> "false"],
   [t |-> "object", v |-> "null"], [t |-> "object", v |-> "zod"],
   [t |-> "function", v |-> "v1"]}

\* A file handed to loadToolFromFile: its path, whether import() of it
\* resolves, and the exports of the module it resolves with.
Units ==
  [path : Paths, importable : BOOLEAN,
   mod : [description : Values, inputSchema : Values, default : Values]]

\* loadToolFromFile(unit.path)
loadToolFromFile ==
  /\ unit # NoUnit
  /\ done = NoDone
  /\ done' = [op |-> "loadToolFromFile",
              ret |-> IF unit.importable THEN ToolFromModule(unit.path, unit.mod)
                                         ELSE [ok |-> FALSE, err |-> "import"]]
  /\ UNCHANGED <<fsVars, watchVars, regVars, calls, aux, histVars>>
  /\ UNCHANGED <<onChangeCallback, loaderVars, limit, readable, subs, logger, server>>

InitUnit ==
  /\ Constructed
  /\ limit = [calls |-> 0, changes |-> 0, watchers |-> 0, clock |-> 0]
  /\ unit \in Units
  /\ readable = TRUE

NextUnit == loadToolFromFile

UnitSpec == InitUnit /\ [][NextUnit]_vars

\* ------------------------------------------------- an unreadable folder
\* The bounds of the runs that study a target folder that cannot be listed.
ScanCalls == 1       \* load calls in flight
ScanChanges == 1     \* filesystem changes

\* The permissions of the target folder change: it can or cannot be
\* enumerated from now on.
FsChmod ==
  /\ readable' = ~readable
  /\ done' = NoDone
  /\ UNCHANGED <<fsVars, watchVars, regVars, calls, aux, histVars>>
  /\ UNCHANGED <<onChangeCallback, loaderVars, limit, subs, logger, server>>

InitScan ==
  /\ Constructed
  /\ limit = [calls |-> ScanCalls, changes |-> ScanChanges, watchers |-> 0, clock |-> 0]
  /\ unit = NoUnit
  /\ readable = TRUE

NextScan ==
  \/ \E p \in Paths, content \in Contents : FsWrite(p, content)
  \/ \E p \in Paths : FsDelete(p)
  \/ FsChmod
  \/ LoadToolsStart
  \/ \E i \in DOMAIN calls : LoadToolsScan(i)
  \/ \E i \in DOMAIN calls, p \in Paths : LoadToolsImport(i, p)
  \/ \E name \in Names : LoadToolStart(name)
  \/ \E i \in DOMAIN calls : LoadToolScan(i)
  \/ \E i \in DOMAIN calls : LoadToolImport(i)

ScanSpec == InitScan /\ [][NextScan]_vars

\* ------------------------------------------------------ the call handler
\* Server.handleCallTool (the Server of src/unnamed/part_000), studied alone.
\* A text is the sequence of the fragments a template string joins.
Null == [t |-> "object", v |-> "null"]

\* The objects a tool may return, with their JSON text: a plain result and
\* the error object { isError: true, error: "Location not found" }.
Objects == {"report", "failure"}

\* The arrays a tool may return, with their items.
Arrays == {"items"}

Items(a) == <<"First item", "Second item">>

\* raw.error of a returned error object
ErrorOf(o) == IF o = "failure" THEN "Location not found" ELSE "undefined"

\* safeJsonStringify(raw, null, 2)
Stringify(o) ==
  IF o = "failure" THEN "{ \"isError\": true, \"error\": \"Location not found\" }"
  ELSE IF o = "report" THEN "{ \"temperature\": 21 }"
  ELSE "null"

\* What execute may return.
Raws ==
  {[t |-> "string", v |-> "sunny"], [t |-> "number", v |-> "7"],
   [t |-> "boolean", v |-> "false"], Undefined, Null,
   [t |-> "object", v |-> "report"], [t |-> "object", v |-> "failure"],
   [t |-> "object", v |-> "items"]}

\* What execute may throw or reject with.
Thrown ==
  {[t |-> "error", v |-> "API key is required"], [t |-> "string", v |-> "boom"],
   Null, Undefined}

\* The messages of the errors loadTool rejects with.
LoadErrors == {"Tool not found", "import", "description", "inputSchema", "default"}

\* A tools/call request: the name, how tools.loadTool(name) settles and what
\* the executor of the loaded tool does.
Requests ==
  [name : Names, load : {"tool"} \cup LoadErrors,
   exec : [how : {"returns"}, val : Raws] \cup [how : {"throws"}, val : Thrown]]

\* String(raw)
String(raw) == IF raw.t = "undefined" THEN "undefined" ELSE raw.v

\* Array.isArray(raw)
IsArray(raw) == raw.t = "object" /\ raw.v \in Arrays

\* formatContentItem(item), for the string items of the model
FormatContentItem(item) == [type |-> "text", text |-> <<item>>]

\* A response; isError = FALSE and structuredContent = Undefined stand for a
\* response without the property.
Response(content, isError, structured) ==
  [threw |-> FALSE, content |-> content, isError |-> isError,
   structuredContent |-> structured]

\* formatToolResult(raw)
FormatToolResult(raw) ==
  IF IsArray(raw)
    THEN Response([i \in DOMAIN Items(raw.v) |-> FormatContentItem(Items(raw.v)[i])],
                  FALSE, Undefined)
  ELSE IF Truthy(raw) /\ raw.t = "object"
    THEN Response(<<[type |-> "text", text |-> <<Stringify(raw.v)>>]>>, FALSE, raw)
  ELSE Response(<<[type |-> "text", text |-> <<String(raw)>>]>>, FALSE, Undefined)

\* (err as Error).message, as the template string prints it
Message(err) == IF err.t = "error" THEN err.v ELSE "undefined"

\* The catch block of handleCallTool: reading .message of null or undefined
\* throws a TypeError, which leaves the handler.
Caught(err) ==
  IF err \in {Null, Undefined}
    THEN [threw |-> TRUE, error |-> "TypeError"]
    ELSE Response(<<[type |-> "text", text |-> <<"Error: ", Message(err)>>]>>,
                  TRUE, Undefined)

\* handleCallTool(request)
HandleCallTool(req) ==
  IF req.load # "tool" THEN Caught([t |-> "error", v |-> req.load])
  ELSE IF req.exec.how = "throws" THEN Caught(req.exec.val)
  ELSE FormatToolResult(req.exec.val)

\* The server answers the request.
handleCallTool ==
  /\ unit \in Requests
  /\ done = NoDone
  /\ done' = [op |-> "handleCallTool", res |-> HandleCallTool(unit)]
  /\ UNCHANGED <<fsVars, watchVars, regVars, calls, aux, histVars>>
  /\ UNCHANGED <<onChangeCallback, loaderVars, limit, readable, subs, logger, server>>

InitCall ==
  /\ Constructed
  /\ limit = [calls |-> 0, changes |-> 0, watchers |-> 0, clock |-> 0]
  /\ unit \in Requests
  /\ readable = TRUE

NextCall == handleCallTool

CallSpec == InitCall /\ [][NextCall]_vars

\* ----------------------------------------------------------- Config.parse
\* Config.parse (src/unnamed/part_001), studied alone. None stands for
\* undefined: an option that was not passed, a variable that is not set, an
\* argv element past the end.
None == "<undefined>"

\* The Config instance after construction.
DefaultConfig ==
  [mode |-> "stdio", targetFolder |-> "", glob |-> "**/*.ts", logFile |-> "",
   port |-> "3000"]

\* What may be on the command line: --target, --glob with a value or as the
\* last word, --port.
Clis ==
  [target : {None, "tools"},
   glob : {None, "**/*.ts", "*.js", "", "--glob"},
   port : {None, "8080"}]

\* process.argv.slice(2) for a command line; a glob of "--glob" stands for
\* the option given without a value.
Argv(cli) ==
  (IF cli.target = None THEN <<>> ELSE <<"--target", cli.target>>)
    \o (IF cli.port = None THEN <<>> ELSE <<"--port", cli.port>>)
    \o (IF cli.glob = None THEN <<>>
        ELSE IF cli.glob = "--glob" THEN <<"--glob">> ELSE <<"--glob", cli.glob>>)

\* process.env
Envs ==
  [MCP_MODE : {None, "http", "stdio", "sse"},
   MCP_GLOB : {None, "", "lib/*.ts"},
   LOG_FILE : {None, "/var/log/trinity.log"}]

\* argv[i]
ArgAt(argv, i) == IF i \in DOMAIN argv THEN argv[i] ELSE None

\* parseInt(s, 10), as a numeral or NaN
ParseInt(s) == IF s = "8080" THEN s ELSE "NaN"

\* !value, for a string or undefined
Falsy(s) == s = None \/ s = ""

\* The loop over argv (lines 24-36), from index i on.
RECURSIVE ParseArgs(_, _, _)
ParseArgs(cfg, argv, i) ==
  IF i > Len(argv) THEN cfg
  ELSE IF argv[i] = "--target"
    THEN ParseArgs([cfg EXCEPT !.targetFolder = ArgAt(argv, i + 1)], argv, i + 2)
  ELSE IF argv[i] = "--glob"
    THEN ParseArgs([cfg EXCEPT !.glob = ArgAt(argv, i + 1)], argv, i + 2)
  ELSE IF argv[i] = "--port"
    THEN ParseArgs([cfg EXCEPT !.port = ParseInt(ArgAt(argv, i + 1))], argv, i + 2)
  ELSE ParseArgs(cfg, argv, i + 1)

\* The environment fallbacks (lines 38-50).
EnvFallbacks(cfg, env) ==
  [cfg EXCEPT
     !.mode = IF env.MCP_MODE \in {"http", "stdio"} THEN env.MCP_MODE ELSE @,
     !.glob = IF Falsy(@) \/ @ = "**/*.ts"
                THEN (IF Falsy(env.MCP_GLOB) THEN "**/*.ts" ELSE env.MCP_GLOB)
                ELSE @,
     !.logFile = IF Falsy(env.LOG_FILE) THEN @ ELSE env.LOG_FILE]

\* parse(argv): the fields of the instance when parse returns or throws; on
\* return the target folder is resolved and exists and the log file is set.
Parse(argv, env) ==
  LET cfg == EnvFallbacks(ParseArgs(DefaultConfig, argv, 1), env)
  IN IF Falsy(cfg.targetFolder)
       THEN [threw |-> TRUE, config |-> cfg, folder |-> "unknown"]
       ELSE [threw |-> FALSE,
             config |-> [cfg EXCEPT
                           !.targetFolder = "/cwd/" \o @,
                           !.logFile = IF Falsy(@) THEN "/cwd/" \o cfg.targetFolder \o "/debug.log"
                                                   ELSE @],
             folder |-> "exists"]

\* Config.getInstance().parse(process.argv.slice(2))
parse ==
  /\ unit \in [cli : Clis, env : Envs]
  /\ done = NoDone
  /\ done' = [op |-> "parse", res |-> Parse(Argv(unit.cli), unit.env)]
  /\ UNCHANGED <<fsVars, watchVars, regVars, calls, aux, histVars>>
  /\ UNCHANGED <<onChangeCallback, loaderVars, limit, readable, subs, logger, server>>

InitConfig ==
  /\ Constructed
  /\ limit = [calls |-> 0, changes |-> 0, watchers |-> 0, clock |-> 0]
  /\ unit \in [cli : Clis, env : Envs]
  /\ readable = TRUE

NextConfig == parse

ConfigSpec == InitConfig /\ [][NextConfig]_vars

\* ------------------------------------------------------------- the Logger
\* Logger in file mode (config.logDest is not "stdout"): src/src/Logger.ts,
\* and the variant with a bounded queue (src/unnamed/part_003). unit.queue
\* says which of the two the run uses.
MaxLogs == 4          \* log calls of a run
ShutdownLogs == 1     \* log calls of a run that ends in a shutdown, the shutdown
                      \* messages not counted
MAX_QUEUE_SIZE == 2   \* Logger.MAX_QUEUE_SIZE (1000 in the source), scaled down

\* A flushLogs that starts a write although one is in flight.
FlushLogsMut(L) ==
  LET t == [L EXCEPT !.flushTimer = FALSE]
  IN IF Len(t.logQueue) = 0
       THEN t
       ELSE [t EXCEPT !.isWriting = TRUE, !.logQueue = <<>>,
                      !.inflight = Append(@, t.logQueue)]

\* flushLogs() up to its await: the timer is forgotten; unless a write is in
\* flight or the queue is empty, the whole queue is spliced off and handed
\* to appendFile.
FlushLogs(L) ==
  LET t == [L EXCEPT !.flushTimer = FALSE]
  IN IF t.isWriting \/ Len(t.logQueue) = 0
       THEN t
       ELSE [t EXCEPT !.isWriting = TRUE, !.logQueue = <<>>,
                      !.inflight = Append(@, t.logQueue)]

\* queueLog(message). The bounded variant flushes at once, after clearing the
\* timer, when the queue has reached MAX_QUEUE_SIZE; otherwise, and always
\* in src/src/Logger.ts, a timer is set unless one is pending.
QueueLog(L, message) ==
  LET q == [L EXCEPT !.logQueue = Append(@, message), !.logged = Append(@, message)]
  IN IF unit.queue = "bounded" /\ Len(q.logQueue) >= MAX_QUEUE_SIZE
       THEN FlushLogs(q)
     ELSE IF ~q.flushTimer
       THEN [q EXCEPT !.flushTimer = TRUE]
       ELSE q

\* Logger.log in file mode: the message is formatted and queued.
Log(L, msg) == QueueLog(L, <<msg, Len(L.logged) + 1>>)

\* A flushLogs whose finally block sets no timer.
SettledMut(L, i, ok) ==
  [L EXCEPT !.inflight = RemoveAt(@, i),
            !.out = @ \o L.inflight[i],
            !.file = IF ok THEN @ \o L.inflight[i] ELSE @,
            !.isWriting = FALSE]

\* flushLogs() after its await: write i has succeeded, or it has failed and
\* the catch block has printed the content; the finally block clears
\* isWriting and sets a timer when messages wait and none is pending.
Settled(L, i, ok) ==
  LET w == [L EXCEPT !.inflight = RemoveAt(@, i),
                     !.out = @ \o L.inflight[i],
                     !.file = IF ok THEN @ \o L.inflight[i] ELSE @,
                     !.isWriting = FALSE]
  IN IF Len(w.logQueue) > 0 /\ ~w.flushTimer
       THEN [w EXCEPT !.flushTimer = TRUE]
       ELSE w

\* The process has not called process.exit.
Alive == server.stop # "exited"

\* The log calls made so far, the shutdown messages not counted.
AppLogs ==
  Cardinality({e \in UNION {{l} \X (DOMAIN logger[l].logged) : l \in Loggers} :
                 logger[e[1]].logged[e[2]][1] = "msg"})

\* Some code of the process logs a message through Logger l.
log(l) ==
  /\ Alive
  /\ AppLogs < limit.logs
  /\ logger' = [logger EXCEPT ![l] = Log(@, "msg")]
  /\ UNCHANGED <<toolsVars, server>>

\* The flush timer of Logger l fires.
flushLogs(l) ==
  /\ Alive
  /\ logger[l].flushTimer
  /\ logger' = [logger EXCEPT ![l] = FlushLogs(@)]
  /\ UNCHANGED <<toolsVars, server>>

\* An appendFile of Logger l settles.
appendFile(l, i, ok) ==
  /\ Alive
  /\ i \in DOMAIN logger[l].inflight
  /\ logger' = [logger EXCEPT ![l] = Settled(@, i, ok)]
  /\ UNCHANGED <<toolsVars, server>>

\* The SIGINT (or SIGTERM) handler of index.ts up to its await: it logs and
\* calls Server.stop(), which logs, stops the watcher (which logs if there
\* was one) and awaits server.close(). The handler cannot run before
\* index.ts has called server.start() and reached its first await.
SIGINT ==
  /\ Alive
  /\ server.start # "idle"
  /\ server.stop = "idle"
  /\ IF watcher THEN StopWatching ELSE UNCHANGED toolsVars
  /\ server' = [server EXCEPT !.stop = "closing"]
  /\ logger' = [logger EXCEPT
                  !["main"] = Log(@, "Received SIGINT, shutting down..."),
                  !["Server"] = Log(@, "Stopping server..."),
                  !["Tools"] = IF watcher
                                 THEN Log(@, "Stopped watching for changes")
                                 ELSE @]

RECURSIVE Concat(_)
Concat(batches) ==
  IF batches = <<>> THEN <<>> ELSE Head(batches) \o Concat(Tail(batches))

\* process.exit: pending timers never fire; a write in flight reaches the
\* file or does not.
Exit(L, landed) ==
  [L EXCEPT !.flushTimer = FALSE,
            !.inflight = <<>>,
            !.file = IF landed THEN @ \o Concat(L.inflight) ELSE @]

\* server.close() has settled: stop() logs and returns, the signal handler
\* resumes and calls process.exit(0).
closed ==
  /\ Alive
  /\ server.stop = "closing"
  /\ \E landed \in BOOLEAN :
       logger' = [l \in Loggers |->
                    Exit(IF l = "Server" THEN Log(logger[l], "Server stopped")
                                         ELSE logger[l],
                         landed)]
  /\ server' = [server EXCEPT !.stop = "exited"]
  /\ UNCHANGED toolsVars

\* A process that logs to a file, its server started (watching) or still
\* starting (not yet watching); it makes at most `logs` log calls.
LoggingProcess(logs) ==
  /\ disk = [p \in Paths |-> IF p.dir = "" THEN "v1" ELSE Absent]
  /\ nchanges = 0
  /\ watcher \in BOOLEAN
  /\ leaked = 0
  /\ failed = FALSE
  /\ events = <<>>
  /\ onChangeCallback = "onToolsChanged"
  /\ cacheValid = FALSE
  /\ toolCache = EmptyMap
  /\ toolPathMap = EmptyMap
  /\ calls = <<>>
  /\ aux = <<>>
  /\ done = NoDone
  /\ procd = 0
  /\ cacheSup = 0
  /\ settled = [p \in Paths |-> "no"]
  /\ clock = 0
  /\ moduleCache = EmptyMap
  /\ subs = [prev |-> "null", last |-> "onToolsChanged"]
  /\ limit = [calls |-> 0, changes |-> 0, watchers |-> 1, clock |-> 0, logs |-> logs]
  /\ unit \in {[queue |-> "unbounded"], [queue |-> "bounded"]}
  /\ readable = TRUE
  /\ logger = [l \in Loggers |-> NewLogger]
  /\ server = [start |-> IF watcher THEN "done" ELSE "loading", stop |-> "idle"]

InitLogger == LoggingProcess(MaxLogs)

NextLogger ==
  \/ \E l \in Loggers : log(l)
  \/ \E l \in Loggers : flushLogs(l)
  \/ \E l \in Loggers, i \in 1..2, ok \in BOOLEAN : appendFile(l, i, ok)

LoggerSpec == InitLogger /\ [][NextLogger]_vars

\* Timers fire and every appendFile settles.
LoggerLiveSpec ==
  /\ LoggerSpec
  /\ \A l \in Loggers :
       /\ WF_vars(flushLogs(l))
       /\ WF_vars(\E i \in 1..2, ok \in BOOLEAN : appendFile(l, i, ok))

NextShutdown ==
  \/ NextLogger
  \/ SIGINT
  \/ closed

InitShutdown == LoggingProcess(ShutdownLogs)

ShutdownSpec == InitShutdown /\ [][NextShutdown]_vars

\* ------------------------------------------------------ the tools listing
\* Server.handleListTools (the Server of src/unnamed/part_000), studied alone
\* on what tools.loadTools() returned.
MaxTools == 2   \* definitions returned by loadTools()

\* The inputSchema exports loadToolFromFile lets through (any truthy object):
\* zod schemas, a zod schema of a type JSON Schema cannot represent (its
\* toJSONSchema() throws), an object that is no zod schema, and an object
\* with a `_zod` property but no toJSONSchema method.
Schemas == {"z.object", "z.string", "z.date", "plain", "fake"}

HasZod(schema) == schema # "plain"

\* schema.toJSONSchema(): the JSON Schema, or the exception thrown.
ToJSONSchema(schema) ==
  IF schema \in {"z.object", "z.string"}
    THEN [ok |-> TRUE,
          schema |-> [type |-> IF schema = "z.object" THEN "object" ELSE "string",
                      properties |-> {schema},
                      description |-> ""]]
    ELSE [ok |-> FALSE, schema |-> [type |-> "", properties |-> {}, description |-> ""]]

InvalidSchema ==
  [type |-> "object", properties |-> {},
   description |-> "Invalid Zod schema: not a valid Zod schema object"]

FailedSchema ==
  [type |-> "object", properties |-> {},
   description |-> "Failed to convert zod schema to JSON Schema, pls check your zod schema maybe it have some problems"]

\* The conversion of the earlier Server: tool.inputSchema.toJSONSchema(),
\* outside any try block.
SafeZodToJsonMut(schema) == ToJSONSchema(schema)

\* safeZodToJson(schema): ok says that it returned.
SafeZodToJson(schema) ==
  IF ~HasZod(schema)
    THEN [ok |-> TRUE, schema |-> InvalidSchema]
  ELSE IF ToJSONSchema(schema).ok
    THEN ToJSONSchema(schema)
    ELSE [ok |-> TRUE, schema |-> FailedSchema]

\* What loadTools() may return to handleListTools.
ToolLists ==
  UNION {[1..n -> [name : Names, description : {"Says hello"}, inputSchema : Schemas]] :
           n \in 0..MaxTools}

\* handleListTools after its await: toolDefs.map(...), an exception of the
\* mapping function rejecting the handler.
HandleListTools(toolDefs) ==
  IF \E i \in DOMAIN toolDefs : ~SafeZodToJson(toolDefs[i].inputSchema).ok
    THEN [kind |-> "error", tools |-> <<>>]
    ELSE [kind |-> "tools",
          tools |-> [i \in DOMAIN toolDefs |->
                       [name |-> toolDefs[i].name,
                        description |-> toolDefs[i].description,
                        inputSchema |-> SafeZodToJson(toolDefs[i].inputSchema).schema]]]

\* The server answers a tools/list request.
handleListTools ==
  /\ unit \in [tools : ToolLists]
  /\ done = NoDone
  /\ done' = [op |-> "handleListTools", res |-> HandleListTools(unit.tools)]
  /\ UNCHANGED <<fsVars, watchVars, regVars, calls, aux, histVars>>
  /\ UNCHANGED <<onChangeCallback, loaderVars, limit, readable, subs, logger, server>>

InitList ==
  /\ Constructed
  /\ limit = [calls |-> 0, changes |-> 0, watchers |-> 0, clock |-> 0]
  /\ unit \in [tools : ToolLists]
  /\ readable = TRUE

NextList == handleListTools

ListSpec == InitList /\ [][NextList]_vars

\* ------------------------------------------------------------- the Server
\* Server.start() and the signal handler's Server.stop() around the registry
\* and the watcher (the Server of src/unnamed/part_000, run by src/src/index.ts).
\* Of the log messages only those of the shutdown are followed.
ServerCalls == 1      \* load calls in flight
ServerChanges == 1    \* filesystem changes

\* start() up to `await this.tools.loadTools()`.
start ==
  /\ Alive
  /\ server.start = "idle"
  /\ LoadToolsBegin
  /\ server' = [server EXCEPT !.start = "loading"]
  /\ UNCHANGED logger

\* start() resumes when loadTools() has returned: startWatching(), then the
\* transport is created and start() awaits server.connect(transport).
loaded ==
  /\ Alive
  /\ server.start = "loading"
  /\ calls = <<>>
  /\ StartWatching
  /\ server' = [server EXCEPT !.start = "connecting"]
  /\ UNCHANGED logger

\* connect() and the two list-changed notifications of start() have settled.
connected ==
  /\ Alive
  /\ server.start = "connecting"
  /\ server' = [server EXCEPT !.start = "done"]
  /\ UNCHANGED <<toolsVars, logger>>

\* The Server of a process that index.ts has just set up: constructed, its
\* onToolsChanged subscribed to the registry, the signal handlers installed.
InitServer ==
  /\ disk \in Folders
  /\ nchanges = 0
  /\ watcher = FALSE
  /\ leaked = 0
  /\ failed = FALSE
  /\ events = <<>>
  /\ onChangeCallback = "onToolsChanged"
  /\ cacheValid = FALSE
  /\ toolCache = EmptyMap
  /\ toolPathMap = EmptyMap
  /\ calls = <<>>
  /\ aux = <<>>
  /\ done = NoDone
  /\ procd = 0
  /\ cacheSup = 0
  /\ settled = [p \in Paths |-> "no"]
  /\ clock = 0
  /\ moduleCache = EmptyMap
  /\ subs = [prev |-> "null", last |-> "onToolsChanged"]
  /\ limit = [calls |-> ServerCalls, changes |-> ServerChanges, watchers |-> 1,
              clock |-> 0]
  /\ unit = [queue |-> "unbounded"]
  /\ readable = TRUE
  /\ logger = [l \in Loggers |-> NewLogger]
  /\ server = NewServer

NextServer ==
  \/ start
  \/ loaded
  \/ connected
  \/ SIGINT
  \/ closed
  \/ Alive /\ \E p \in Paths, content \in Contents : FsWrite(p, content)
  \/ Alive /\ \E p \in Paths : FsDelete(p)
  \/ Alive /\ WatchEvent
  \/ Alive /\ server.start = "done" /\ LoadToolsStart
  \/ Alive /\ \E i \in DOMAIN calls : LoadToolsScan(i)
  \/ Alive /\ \E i \in DOMAIN calls, p \in Paths : LoadToolsImport(i, p)

ServerSpec == InitServer /\ [][NextServer]_vars

\* ------------------------------------------------- the two cache strategies
\* The registry above (flag-gated cache with a path index) next to the Tools
\* class that rescans on every call (src/src/Tools.ts 238-407), on runs where
\* nothing overlaps: one call at a time, the folder changes only between
\* calls while the watcher is on, and every pending event is delivered before
\* the next call starts. On such a run the folder does not change during a
\* call, so what the rescanning loadTools and loadTool return is a function
\* of the folder and of the order in which the scan lists it.
RefineCalls == 1      \* load calls in flight
RefineChanges == 1    \* filesystem changes

\* What a caller can tell apart: the names returned, or the failure.
Observed(ret) ==
  IF ret.kind = "tools" THEN [kind |-> "tools", names |-> {t.name : t \in ret.tools}]
  ELSE IF ret.kind = "tool" THEN [kind |-> "tool", names |-> {ret.tool.name}]
  ELSE [kind |-> ret.error, names |-> {}]

\* loadTools() of the rescanning class: every listed file is loaded, the
\* rejected loads are logged and left out.
RescanLoadTools(d) ==
  [kind |-> "tools",
   tools |-> {LoadToolFromFile(p, d[p]).tool :
                p \in {q \in Paths : d[q] # Absent /\ LoadToolFromFile(q, d[q]).ok}}]

\* loadTool(name) of the rescanning class, the scan listing `files`: the
\* first file of that base name is loaded, or the call fails.
RescanLoadTool(d, files, name) ==
  LET filePath == Find(files, name)
  IN IF filePath = NoPath
       THEN [kind |-> "error", error |-> "Tool not found", name |-> name]
     ELSE IF LoadToolFromFile(filePath, d[filePath]).ok
       THEN [kind |-> "tool", tool |-> LoadToolFromFile(filePath, d[filePath]).tool]
       ELSE [kind |-> "error", error |-> LoadToolFromFile(filePath, d[filePath]).err,
             name |-> name]

\* The next call may start: none is in flight and no event is pending.
Quiescent == calls = <<>> /\ events = <<>>

InitRefine ==
  /\ Constructed
  /\ limit = [calls |-> RefineCalls, changes |-> RefineChanges, watchers |-> 1,
              clock |-> 0]
  /\ unit = NoUnit
  /\ readable = TRUE

NextRefine ==
  \/ startWatching
  \/ watcher /\ calls = <<>> /\ \E p \in Paths, content \in Contents : FsWrite(p, content)
  \/ watcher /\ calls = <<>> /\ \E p \in Paths : FsDelete(p)
  \/ WatchEvent
  \/ Quiescent /\ LoadToolsStart
  \/ \E i \in DOMAIN calls : LoadToolsScan(i)
  \/ \E i \in DOMAIN calls, p \in Paths : LoadToolsImport(i, p)
  \/ Quiescent /\ \E name \in Names : LoadToolStart(name)
  \/ \E i \in DOMAIN calls : LoadToolScan(i)
  \/ \E i \in DOMAIN calls : LoadToolImport(i)

RefineSpec == InitRefine /\ [][NextRefine]_vars

\* ----------------------------------------------------------------- claims
\* C1: a loadTools() call never returns definitions computed from a directory
\* enumeration or module imports that a later change outdated, once
\* onFileChange had processed the event of that change by the time the call
\* returned.
C1_NoSupersededResult ==
  done.op = "loadTools" => ~(done.aux.sup # 0 /\ procd >= done.aux.sup)

\* C2: cacheValid = TRUE implies that onFileChange has processed no event of
\* a change that outdated the enumeration and imports toolCache was filled
\* from.
C2_ValidIsCurrent == cacheValid => ~(cacheSup # 0 /\ procd >= cacheSup)

\* C3: a loadTools() call that starts after the event of an added valid file
\* was processed returns a definition named after that file, and one that
\* starts after the event of a deleted file was processed returns no
\* definition loaded from it (the file unchanged during the call).
C3_AddedAndDeleted ==
  done.op = "loadTools" =>
    /\ \A p \in done.aux.expectIn : \E t \in done.ret.tools : t.name = Basename(p)
    /\ \A p \in done.aux.expectOut : \A t \in done.ret.tools : SourceOf(t) # p

\* C4: the next loadTool(n) after the event of a modification of the file
\* with base name n was processed returns the executor the file exports now,
\* not a definition cached before (the file unchanged during the call).
C4_ReloadedAfterEdit ==
  done.op = "loadTool" =>
    \A p \in done.aux.mod :
      (done.ret.kind = "tool" /\ SourceOf(done.ret.tool) = p)
        => done.ret.tool.execute = disk[p]

OnePerName(T, P) ==
  \A t \in P : /\ Cardinality({u \in T : u.name = t.name}) = 1
               /\ \E u \in T \cap P : u.name = t.name

C6_FailedFilesExcluded ==
  (done.op = "loadTools" /\ done.call.pc = "importing") =>
    /\ done.ret.kind = "tools"
    /\ \A p \in Range(done.call.files) :
         IF done.call.results[p].st = "ok"
           THEN done.call.results[p].tool \in done.ret.tools /\ done.call.errors[p] = 0
           ELSE /\ done.call.errors[p] = 1
                /\ \A t \in done.ret.tools : SourceOf(t) # p
                /\ \A n \in DOMAIN toolCache : SourceOf(toolCache[n]) # p
    /\ \A t \in done.ret.tools : SourceOf(t) \in Range(done.call.files)

\* C7: in a folder that holds only valid units (and has not changed), every
\* loadTools() call returns exactly one definition per file, named by the
\* file's base name.
C7_OnePerFile ==
  (done.op = "loadTools" /\ nchanges = 0 /\ \A p \in Existing : IsValidUnit(disk[p])) =>
    /\ {SourceOf(t) : t \in done.ret.tools} = Existing
    /\ Cardinality(done.ret.tools) = Cardinality(Existing)
    /\ \A t \in done.ret.tools : t.name = Basename(SourceOf(t))

\* C8: loadTool(name) made while no matching file has that base name fails
\* with "Tool not found: <name>", never returns a definition and never fails
\* otherwise (checked for calls that start with every change to such a file
\* already processed by onFileChange).
C8_MissingIsNotFound ==
  (done.op = "loadTool" /\ done.aux.nofile /\ done.aux.known) =>
    /\ done.ret.kind = "error"
    /\ done.ret.error = "Tool not found"
    /\ done.ret.name = done.call.name

\* C9 as claimed: loadTool(name) does not fail while some matching file has
\* that base name.
C9_ResolvableNeverFails_Claimed ==
  (done.op = "loadTool" /\ done.aux.had) => done.ret.kind # "error"

\* C9, amended: while some matching file has that base name, loadTool(name)
\* never fails with "Tool not found"; it fails only with the load error of
\* the file it imported, which was missing or not a valid unit when read.
C9_ResolvableNeverFails ==
  (done.op = "loadTool" /\ done.aux.had /\ done.ret.kind = "error") =>
    /\ done.ret.error # "Tool not found"
    /\ done.call.pc = "loading"
    /\ ~IsValidUnit(done.aux.read)

\* C9 witness: a loadTool(name) call fails although a file of that base name
\* existed from its start to its end.
C9_Witness == done.op = "loadTool" /\ done.aux.had /\ done.ret.kind = "error"

\* C10: loadTools() replaces toolCache and toolPathMap atomically: a step of
\* a scan that leaves the scan suspended (imports still pending) changes
\* neither map, so no other operation sees them emptied or partly filled.
C10_AtomicReplace ==
  [][\A i \in DOMAIN calls :
       (/\ calls[i].op = "loadTools"
        /\ Len(calls') = Len(calls)
        /\ calls'[i] # calls[i]
        /\ calls'[i].pc = "importing")
         => (toolCache' = toolCache /\ toolPathMap' = toolPathMap)]_vars

\* C11: a loadTool(name) call that fails (not found, import failure or
\* validation failure) has itself changed none of toolCache, toolPathMap and
\* cacheValid.
C11_FailedLoadWritesNothing ==
  (done.op = "loadTool" /\ done.ret.kind = "error") => ~done.aux.wrote

\* C12: after stopWatching() has returned (Tools.watcher is null), no
\* filesystem change leads to a run of onFileChange: the listener never runs
\* for a change that was made while Tools.watcher was null.
C12_NoEventAfterStop == done.op = "onFileChange" => ~done.off

\* C13: startWatching() is idempotent: however often it was called there is a
\* single active watcher, so one filesystem change schedules at most one run
\* of the listener.
C13_StartIdempotent ==
  [][nchanges' # nchanges => Len(events') <= Len(events) + 1]_vars

\* C14: every watcher event whose file name matches the glob sets cacheValid
\* to false and then invokes the registered callback exactly once, the
\* callback finding cacheValid already false; with no callback registered
\* the event still sets cacheValid to false.
C14_NotifiedOncePerEvent ==
  (done.op = "onFileChange" /\ done.matched) =>
    /\ ~cacheValid
    /\ done.notified = (IF done.cb = "null" THEN 0 ELSE 1)
    /\ done.notified = 1 => ~done.seen

\* C14 witness: the listener has run for a matching file with a callback
\* registered, and has invoked it.
C14_Witness ==
  done.op = "onFileChange" /\ done.matched /\ done.cb = "ok" /\ done.notified = 1

\* C15: when the invoked callback fails, by throwing or by asynchronous work
\* that rejects, nothing leaves onFileChange (no exception, no rejection left
\* unhandled), cacheValid is false afterwards and the failure is reported
\* through the logger.
C15_SubscriberFailureSwallowed ==
  (done.op = "onFileChange" /\ done.notified > 0 /\ done.cb \in Callbacks \ {"ok"}) =>
    /\ ~done.threw
    /\ ~done.unhandled
    /\ done.logged = 1
    /\ ~cacheValid

\* C16: a watcher 'error' event is reported once through logger.error, lets no
\* exception escape and changes neither toolCache, toolPathMap, cacheValid nor
\* any load call in flight.
C16_WatcherErrorOnlyLogged ==
  [][done'.op = "watcherError" =>
       /\ UNCHANGED <<regVars, calls, aux, fsVars, onChangeCallback>>
       /\ done'.logged = 1 /\ ~done'.threw]_vars

\* C16 witness: a handle has emitted 'error' while a valid, non-empty cache
\* was being served.
C16_Witness == done.op = "watcherError" /\ cacheValid /\ toolCache # EmptyMap

\* C18: a loadTools() scan that becomes pending on its imports (one of which
\* may never complete) stalls no lookup that the cache answered until then:
\* a loadTool(name) that was answered from the cache before that step is
\* answered from it after the step, and so is loadTools().
C18_HungScanStallsOnlyItself ==
  [][\A i \in DOMAIN calls :
       (/\ calls[i].op = "loadTools" /\ calls[i].pc = "scanning"
        /\ Len(calls') = Len(calls)
        /\ calls'[i].pc = "importing")
         => /\ \A n \in Names : CachedTool(n) => CachedTool(n)'
            /\ CacheHit => CacheHit']_vars

\* C20: when two listed files share a base name and both load, toolCache holds
\* for that name, once loadTools() has completed, the definition of the file
\* whose load finished later, in whatever order the files were listed.
C20_LaterLoadedWins ==
  (done.op = "loadTools" /\ done.call.pc = "importing") =>
    \A n \in DOMAIN done.aux.later :
      (\A p \in Range(done.call.files) :
         Basename(p) = n => done.call.results[p].st = "ok")
        => /\ n \in DOMAIN toolCache
           /\ SourceOf(toolCache[n]) = done.aux.later[n]

\* C17: every load of a path returns the module built from the content the
\* file has at the time of that load, also when an earlier load of the path
\* was issued within the same millisecond (stated for the loads that return a
\* module).
C17_LoadReflectsDisk ==
  (done.op = "import" /\ done.got # Absent) => done.got = disk[done.path]

\* C19: loadToolFromFile fails exactly when the import fails, or description
\* is missing or not a string, or inputSchema is missing or not an object, or
\* the default export is missing or not a function; otherwise it returns a
\* definition whose inputSchema and execute are the module's own values.
C19_FailsExactlyWhenInvalid ==
  done.op = "loadToolFromFile" =>
    LET mod == unit.mod
        invalid == \/ ~unit.importable
                   \/ mod.description.t # "string"
                   \/ mod.inputSchema.t # "object" \/ mod.inputSchema.v = "null"
                   \/ mod.default.t # "function"
    IN /\ done.ret.ok <=> ~invalid
       /\ done.ret.ok => /\ done.ret.tool.inputSchema = mod.inputSchema.v
                         /\ done.ret.tool.execute = mod.default.v

\* C21: no list returned by loadTools(), from a scan or from the cache,
\* holds two definitions with the same name.
C21_NamesUnique ==
  done.op = "loadTools" =>
    \A t1, t2 \in done.ret.tools : t1.name = t2.name => t1 = t2

\* C22: a call whose enumeration ran on a folder that cannot be listed does
\* not fail with the enumeration error: loadTools() resolves with the empty
\* list, loadTool(name) fails with "Tool not found", and one warning is
\* reported.
C22_UnreadableFolderIsEmpty ==
  LET scanned == \/ done.op = "loadTool" /\ done.call.pc = "scanning"
                 \/ done.op = "loadTools" /\ done.call.pc = "scanning"
                 \/ done.op = "loadTools" /\ done.call.pc = "importing"
                                          /\ done.call.files = <<>>
  IN (scanned /\ ~readable) =>
       /\ done.op = "loadTools" => done.ret.kind = "tools" /\ done.ret.tools = {}
       /\ done.op = "loadTool" => done.ret.kind = "error" /\ done.ret.error = "Tool not found"
       /\ done.aux.warned = 1

\* C23: handleCallTool never throws: when loadTool fails or execute throws or
\* rejects, the response has isError = true and the single text content item
\* "Error: <message>".
C23_CallNeverThrows ==
  (done.op = "handleCallTool" /\ (unit.load # "tool" \/ unit.exec.how = "throws")) =>
    /\ ~done.res.threw
    /\ done.res.isError
    /\ Len(done.res.content) = 1
    /\ done.res.content[1].type = "text"
    /\ done.res.content[1].text[1] = "Error: "
    /\ unit.load # "tool" => done.res.content[1].text[2] = unit.load
    /\ (unit.load = "tool" /\ unit.exec.val.t = "error") =>
         done.res.content[1].text[2] = unit.exec.val.v

\* C24: when execute returns { isError: true, error: <text> } the response
\* has isError = true and its only content item is the text <text>.
C24_ErrorObjectIsError ==
  (/\ done.op = "handleCallTool" /\ unit.load = "tool"
   /\ unit.exec.how = "returns" /\ unit.exec.val = [t |-> "object", v |-> "failure"]) =>
    /\ done.res.isError
    /\ done.res.content = <<[type |-> "text", text |-> <<ErrorOf(unit.exec.val.v)>>]>>

\* C25: the description of every loaded definition is the module's
\* description, a blank line, the separator "---", "Source: <path>" with the
\* path the file was loaded from, and the fixed note, in this order and
\* nothing else; this also holds for a definition that loadTool loads again.
C25_DescriptionHasProvenance ==
  LET Built(tool, p) ==
        \E c \in Contents :
          /\ Len(tool.description) = 5
          /\ tool.description[1] = ModuleOf(c).description.v
          /\ tool.description[2] = ""
          /\ tool.description[3] = "---"
          /\ tool.description[4] = <<"Source: ", p>>
          /\ tool.description[5] = "Note: This tool is dynamically loaded. Changes to this file will immediately affect this tool's behavior. You can read and modify this file to change the tool."
  IN /\ \A n \in DOMAIN toolCache :
          \E p \in Paths : Basename(p) = n /\ Built(toolCache[n], p)
     /\ (done.op = "loadTool" /\ done.ret.kind = "tool" /\ done.call.pc = "loading") =>
          Built(done.ret.tool, done.call.filePath)
     /\ (done.op = "loadTools" /\ done.ret.kind = "tools") =>
          \A t \in done.ret.tools : \E p \in Paths : Basename(p) = t.name /\ Built(t, p)

\* A loadTool call has loaded a file again whose definition toolCache held.
C25_Witness ==
  /\ done.op = "loadTool" /\ done.ret.kind = "tool" /\ done.call.pc = "loading"
  /\ done.aux.again

\* C26: after parse, config.glob is the value passed with --glob whenever a
\* (non-empty) one is passed, whatever MCP_GLOB holds; without --glob it is
\* MCP_GLOB, and "**/*.ts" when neither is given.
C26_CliGlobTakesPriority ==
  (done.op = "parse" /\ unit.cli.glob \notin {"--glob", ""}) =>
    IF unit.cli.glob # None THEN done.res.config.glob = unit.cli.glob
    ELSE IF unit.env.MCP_GLOB \notin {None, ""}
      THEN done.res.config.glob = unit.env.MCP_GLOB
    ELSE done.res.config.glob = "**/*.ts"

\* C27: the listener's run for a notification that names a glob-matching
\* file sets cacheValid to FALSE and leaves toolCache and toolPathMap as they
\* were.
C27_InvalidateKeepsEntries ==
  [][(done'.op = "onFileChange" /\ done'.file \in Paths) =>
       /\ cacheValid' = FALSE
       /\ UNCHANGED <<toolCache, toolPathMap>>]_vars

\* A matching notification was processed while both maps held entries.
C27_Witness ==
  /\ done.op = "onFileChange" /\ done.file \in Paths
  /\ toolCache # EmptyMap /\ toolPathMap # EmptyMap

\* C28: the listener's run for a notification whose file name does not match
\* the pattern, or that carries no file name, leaves cacheValid, toolCache and
\* toolPathMap unchanged and does not invoke the change callback.
C28_NonMatchingIgnored ==
  [][(done'.op \in {"onFileChange", "listener"} /\ done'.file \notin Paths) =>
       /\ UNCHANGED <<cacheValid, toolCache, toolPathMap>>
       /\ done'.notified = 0]_vars

\* A notification about a non-matching file was processed while the cache was
\* valid and non-empty and a callback was registered.
C28_Witness ==
  /\ done.op = "onFileChange" /\ done.file = OtherPath
  /\ cacheValid /\ toolCache # EmptyMap /\ onChangeCallback # "null"

\* C30: a glob-matching notification invokes the callback passed to the last
\* onChange call, once, and no callback registered before it.
C30_SingleSubscriber ==
  (done.op = "onFileChange" /\ done.file \in Paths) =>
    /\ done.cb = subs.last
    /\ done.notified = (IF subs.last = "null" THEN 0 ELSE 1)

\* A matching notification was processed after onChange(c1) and onChange(c2)
\* with two different callbacks.
C30_Witness ==
  /\ done.op = "onFileChange" /\ done.file \in Paths /\ done.notified = 1
  /\ subs.prev # "null" /\ subs.last \notin {"null", subs.prev}

\* C29: no step of a loadTool(name) call changes cacheValid or the toolCache
\* entry of another name; the call returns the cached definition at once,
\* without enumeration or import, exactly when cacheValid holds and name is
\* in toolCache; a call that loads the file successfully stores the loaded
\* definition under name.
C29_LoadToolFrame ==
  [][LET OthersKept(name) ==
           \A n \in Names \ {name} :
             /\ n \in DOMAIN toolCache' <=> n \in DOMAIN toolCache
             /\ n \in DOMAIN toolCache => toolCache'[n] = toolCache[n]
     IN /\ (Len(calls') = Len(calls) + 1 /\ calls'[Len(calls')].op = "loadTool") =>
             /\ ~(cacheValid /\ calls'[Len(calls')].name \in DOMAIN toolCache)
             /\ UNCHANGED <<cacheValid, toolCache>>
        /\ (done'.op = "loadTool" /\ done'.call.pc = "start") =>
             /\ cacheValid /\ done'.call.name \in DOMAIN toolCache
             /\ done'.ret.kind = "tool"
             /\ done'.ret.tool = toolCache[done'.call.name]
             /\ UNCHANGED <<cacheValid, toolCache, toolPathMap>>
        /\ \A i \in DOMAIN calls :
             (/\ Len(calls') = Len(calls)
              /\ calls[i].op = "loadTool" /\ calls'[i] # calls[i]) =>
               UNCHANGED <<cacheValid, toolCache>>
        /\ (Len(calls') = Len(calls) - 1 /\ done'.op = "loadTool") =>
             /\ cacheValid' = cacheValid
             /\ OthersKept(done'.call.name)
             /\ done'.ret.kind = "tool" =>
                  /\ done'.call.name \in DOMAIN toolCache'
                  /\ toolCache'[done'.call.name] = done'.ret.tool]_vars

\* A loadTool call has loaded its file while toolCache held a definition of
\* another name.
C29_Witness ==
  /\ done.op = "loadTool" /\ done.call.pc = "loading" /\ done.ret.kind = "tool"
  /\ \E n \in DOMAIN toolCache : n # done.call.name

\* C32: in every reachable state, also between the awaits of overlapping
\* load calls, every key of toolCache is a key of toolPathMap.
C32_CachedNamesHavePaths == DOMAIN toolCache \subseteq DOMAIN toolPathMap

\* C33: whenever no load call is in flight, toolPathMap holds for every name
\* in toolCache the path of the file the cached definition was loaded from.
C33_PathIsSourceOfCached ==
  calls = <<>> =>
    \A n \in DOMAIN toolCache :
      n \in DOMAIN toolPathMap /\ toolPathMap[n] = SourceOf(toolCache[n])

\* C37: in file mode a Logger puts out every message exactly once and in the
\* order it was logged, with at most one appendFile in flight: in every
\* state the messages of the settled writes (file or console fallback), then
\* those of the write in flight, then the queue, are the logged messages.
C37_ExactlyOnceInOrder ==
  \A l \in Loggers :
    /\ Len(logger[l].inflight) <= 1
    /\ logger[l].out \o Concat(logger[l].inflight) \o logger[l].logQueue
         = logger[l].logged

\* C37's case: a Logger with a failed and a successful write behind it, one
\* in flight and a message waiting.
C37_Witness ==
  \E l \in Loggers :
    /\ Len(logger[l].out) >= 2 /\ logger[l].file # <<>>
    /\ logger[l].file # logger[l].out
    /\ logger[l].inflight # <<>> /\ logger[l].logQueue # <<>>

\* C38: with timers firing and writes settling, no state has a non-empty
\* logQueue with neither a flush timer pending nor a write in flight, a
\* non-empty queue is eventually spliced off whole and handed to appendFile,
\* and a write in flight eventually settles (file or console fallback).
C38_QueuedIsFlushed ==
  /\ [](\A l \in Loggers :
          logger[l].logQueue # <<>> =>
            logger[l].flushTimer \/ logger[l].inflight # <<>>)
  /\ \A l \in Loggers :
       /\ (logger[l].logQueue # <<>>) ~> (logger[l].logQueue = <<>>)
       /\ (logger[l].inflight # <<>>) ~> (logger[l].inflight = <<>>)

\* C38's case: messages wait while no timer is pending; only the write in
\* flight will set one.
C38_Witness ==
  \E l \in Loggers :
    /\ logger[l].logQueue # <<>> /\ ~logger[l].flushTimer
    /\ logger[l].inflight # <<>>

\* C39: in the bounded-queue variant logQueue never holds more than
\* MAX_QUEUE_SIZE messages once a log call has returned.
C39_QueueBounded ==
  unit.queue = "bounded" =>
    \A l \in Loggers : Len(logger[l].logQueue) <= MAX_QUEUE_SIZE

\* C40: when the signal handler has reached process.exit(0), every message
\* logged before, the shutdown messages included, has been appended to the
\* log file.
C40_AllAppendedAtExit ==
  server.stop = "exited" =>
    \A l \in Loggers : logger[l].file = logger[l].logged

C34_StartWindowChangeSeen ==
  ( /\ server.start = "done"
    /\ done.op = "loadTools" /\ done.ret.kind = "tools"
    /\ done.call.pc = "start"
    /\ nchanges > 0 /\ events = <<>> /\ procd = 0 )
  => done.ret.tools =
       {LoadToolFromFile(p, disk[p]).tool :
          p \in {q \in Existing : LoadToolFromFile(q, disk[q]).ok}}

\* C35: once Server.stop() has been called, the fs.watch listener never
\* invokes the registered onToolsChanged again, so no tools/listChanged
\* notification is sent on a closing or closed server.
C35_NoNotificationAfterStop ==
  [][( /\ server.stop # "idle" /\ server' = server
       /\ events # <<>> /\ events' = Tail(events)
       /\ done'.op = "onFileChange" )
     => done'.notified = 0]_vars

\* C31: on a run where nothing overlaps and every change is delivered as a
\* watcher event before the next call starts, each loadTools() and
\* loadTool(name) call of the flag-gated registry returns what the same call
\* of the rescanning registry can return: the same tool names, or the same
\* failure.
C31_SameAsRescan ==
  /\ done.op = "loadTools" =>
       Observed(done.ret) = Observed(RescanLoadTools(disk))
  /\ done.op = "loadTool" =>
       \E files \in Orders(Existing) :
         Observed(done.ret) = Observed(RescanLoadTool(disk, files, done.call.name))

====
